---------------------------- MODULE Spec2Model ----------------------------
(***************************************************************************)
(* A model of the CSV log comparator (src/test-version1.py).               *)
(*                                                                         *)
(* Three parts of the script are modelled, each with its own               *)
(* specification over the same variables:                                  *)
(*   SpecLoad  - load_csv_to_dict, one record of the file per step;        *)
(*   SpecDiff  - main's tail: compare_dicts and print_comparison_results   *)
(*               on two loaded snapshots;                                  *)
(*   SpecFiles - rename_files_with_date_prefix, organize_files_by_log_type *)
(*               and list_log_folders_and_files on a small folder.         *)
(*                                                                         *)
(* Python values.  A cell value is a record [t, v]: a str s is             *)
(* [t |-> "str", v |-> <<s>>], None is [t |-> "none", v |-> <<>>] and the  *)
(* list csv.DictReader stores under its restkey is [t |-> "list", v |-> q].*)
(* A row (a dict from column to value) is a function; the order of its     *)
(* columns is not modelled.  A snapshot (the dict load_csv_to_dict         *)
(* returns) is the sequence of its <<key, row>> items in insertion order,  *)
(* because print_comparison_results reads the first row of it.             *)
(***************************************************************************)
EXTENDS Integers, Sequences, FiniteSets, TLC

VARIABLES
    pc,         \* the position of the modelled run
    file,       \* SpecLoad: the parsed file being loaded [header, records]
    idx,        \* SpecLoad: the number of records the reader has yielded
    data,       \* SpecLoad: the dict load_csv_to_dict is building
    old_data,   \* SpecDiff: main's old_data
    new_data,   \* SpecDiff: main's new_data
    result,     \* SpecDiff: what compare_dicts returned [added, removed, changed]
    outcome,    \* SpecDiff: how print_comparison_results ended
    fs,         \* SpecFiles: the files, each [id, dir, name]
    dirs,       \* SpecFiles: the subfolders of the logs folder
    todo,       \* SpecFiles: what is left of the running iterdir() listing
    logs        \* SpecFiles: what list_log_folders_and_files returned

vars == <<pc, file, idx, data, old_data, new_data, result, outcome,
          fs, dirs, todo, logs>>

loadVars  == <<file, idx, data>>
diffVars  == <<old_data, new_data, result, outcome>>
filesVars == <<fs, dirs, todo, logs>>

(***************************************************************************)
(* Bounds of the model.                                                    *)
(***************************************************************************)
\* the most records of a file loaded under SpecLoad
MaxRecs == 3
\* the most records of a file loaded under SpecDiff
MaxDiffRecs == 2

(***************************************************************************)
(* Python values and dicts                                                 *)
(***************************************************************************)
Str(s)  == [t |-> "str",  v |-> <<s>>]
NoneVal == [t |-> "none", v |-> <<>>]
List(q) == [t |-> "list", v |-> q]

\* the key csv.DictReader files surplus fields under (restkey=None)
restkey == "<None>"

EmptyRow == [c \in {} |-> NoneVal]

\* dict.get(col): the value, None when the column is missing
Get(row, col) == IF col \in DOMAIN row THEN row[col] ELSE NoneVal

\* an insertion-ordered dict as the sequence of its <<key, value>> items
EmptyDict == <<>>
Keys(d) == {d[i][1] : i \in DOMAIN d}
Lookup(d, k) == d[CHOOSE i \in DOMAIN d : d[i][1] = k][2]

\* a mutant of DictSet: an existing key keeps its first value
DictSetKeepFirst(d, k, val) ==
    IF k \in Keys(d) THEN d ELSE Append(d, <<k, val>>)

\* d[k] = val: an existing key keeps its place and takes the new value
DictSet(d, k, val) ==
    IF k \in Keys(d)
    THEN [i \in DOMAIN d |-> IF d[i][1] = k THEN <<k, val>> ELSE d[i]]
    ELSE Append(d, <<k, val>>)

Min(a, b) == IF a < b THEN a ELSE b

(***************************************************************************)
(* load_csv_to_dict                                                        *)
(***************************************************************************)
key_column == "id"

\* csv.DictReader's row for one non-blank record: dict(zip(fieldnames, rec)),
\* surplus fields as a list under restkey, missing fields as None
DictReaderRow(header, rec) ==
    LET lf == Len(header)
        lr == Len(rec)
        n  == Min(lf, lr)
        zipped == [c \in {header[i] : i \in 1..n} |->
                     Str(rec[CHOOSE i \in 1..n :
                               /\ header[i] = c
                               /\ \A j \in 1..n : header[j] = c => j <= i])]
    IN  IF lf < lr
        THEN (restkey :> List(SubSeq(rec, lf + 1, lr))) @@ zipped
        ELSE IF lf > lr
        THEN [c \in {header[i] : i \in (lr + 1)..lf} |-> NoneVal] @@ zipped
        ELSE zipped

\* the body of the loop over the reader: one record of the file.  DictReader
\* does not yield a blank record; a row is stored under its key unless the
\* key is None.
LoadRecord(d, header, rec) ==
    IF rec = <<>> THEN d
    ELSE LET row == DictReaderRow(header, rec)
             key == Get(row, key_column)
         IN  IF key # NoneVal THEN DictSet(d, key.v[1], row) ELSE d

\* the whole function on a parsed file: the loop over the reader, after[i]
\* being data after the first i records
load_csv_to_dict(f) ==
    LET after[i \in 0..Len(f.records)] ==
            IF i = 0 THEN EmptyDict
            ELSE LoadRecord(after[i - 1], f.header, f.records[i])
    IN  after[Len(f.records)]

(***************************************************************************)
(* SpecLoad: one load, record by record                                    *)
(***************************************************************************)
LoadHeaders == {<<"id">>, <<"id", "a">>, <<"a", "id">>, <<"a">>}
LoadCells == {"", "1", "2"}

\* the sequences over S of a length in lo..hi
SeqsOf(S, lo, hi) == UNION {[1..n -> S] : n \in lo..hi}

\* a record has zero (a blank line), one or two fields: fewer than, as many as
\* or more than the header
LoadFiles ==
    [header : LoadHeaders, records : SeqsOf(SeqsOf(LoadCells, 0, 2), 0, MaxRecs)]

InitLoad ==
    /\ pc = "reading"
    /\ file \in LoadFiles
    /\ idx = 0
    /\ data = EmptyDict
    /\ old_data = <<>> /\ new_data = <<>>
    /\ result = <<>> /\ outcome = ""
    /\ fs = {} /\ dirs = {} /\ todo = {} /\ logs = <<>>

\* for row in reader: ... (one iteration)
ReadRecord ==
    /\ pc = "reading"
    /\ idx < Len(file.records)
    /\ idx' = idx + 1
    /\ data' = LoadRecord(data, file.header, file.records[idx + 1])
    /\ UNCHANGED <<pc, file, diffVars, filesVars>>

\* return data
ReturnData ==
    /\ pc = "reading"
    /\ idx = Len(file.records)
    /\ pc' = "returned"
    /\ UNCHANGED <<file, idx, data, diffVars, filesVars>>

NextLoad == ReadRecord \/ ReturnData

SpecLoad == InitLoad /\ [][NextLoad]_vars

(***************************************************************************)
(* Claims about load_csv_to_dict (checked under SpecLoad)                  *)
(***************************************************************************)
\* the records read so far that DictReader yields and whose key is not None
Kept == {i \in 1..idx :
            /\ file.records[i] # <<>>
            /\ Get(DictReaderRow(file.header, file.records[i]), key_column) # NoneVal}
RowOf(i) == DictReaderRow(file.header, file.records[i])
KeyOf(i) == RowOf(i)[key_column].v[1]

\* C4: a record whose key-column value is absent or the empty string is
\* skipped, so the snapshot never has an entry under the empty-string key.
\* (The statement of the claim; the code stores such a record under "".)
C4_EmptyKeySkipped == "" \notin Keys(data)

\* a file whose header lacks the key column, or with a non-blank record whose
\* field count differs from the header's
Malformed(f) ==
    \/ \A i \in DOMAIN f.header : f.header[i] # key_column
    \/ \E i \in DOMAIN f.records :
          f.records[i] # <<>> /\ Len(f.records[i]) # Len(f.header)

\* C5: load_csv_to_dict returns no snapshot for a file whose header lacks the
\* key column or that has a record of another field count than the header.
\* (The statement of the claim; the code raises nothing and returns a dict.)
C5_MalformedNotReturned == pc = "returned" => ~Malformed(file)

\* C6: the snapshot has exactly one entry per distinct key of the records
\* kept so far, and the entry of a key is the row of the last record in file
\* order that carries the key (last-write-wins).
C6_LastWriteWins ==
    /\ Keys(data) = {KeyOf(i) : i \in Kept}
    /\ Len(data) = Cardinality(Keys(data))
    /\ \A i \in Kept :
          (\A j \in Kept : KeyOf(j) = KeyOf(i) => j <= i)
              => Lookup(data, KeyOf(i)) = RowOf(i)

\* the load has returned and two kept records with different rows shared a key
C6_Witness ==
    /\ pc = "returned"
    /\ \E i, j \in Kept : i < j /\ KeyOf(i) = KeyOf(j) /\ RowOf(i) # RowOf(j)


(***************************************************************************)
(* compare_dicts                                                           *)
(***************************************************************************)
\* a mutant of added_keys: the old keys are not subtracted
added_keys_all_new(old_keys, new_keys) == new_keys

\* added = new_keys - old_keys
added_keys(old_keys, new_keys) == new_keys \ old_keys

\* removed = old_keys - new_keys
removed_keys(old_keys, new_keys) == old_keys \ new_keys

\* a mutant of row_diffs: the columns of both rows are compared
row_diffs_symmetric(old_row, new_row) ==
    LET cols == {c \in DOMAIN old_row \cup DOMAIN new_row :
                    Get(old_row, c) # Get(new_row, c)}
    IN  [c \in cols |-> <<Get(old_row, c), Get(new_row, c)>>]

\* the loop over old_row.keys(): the columns of the old row whose value is
\* not new_row.get(col), each with (old value, new_row.get(col))
row_diffs(old_row, new_row) ==
    LET cols == {c \in DOMAIN old_row : old_row[c] # Get(new_row, c)}
    IN  [c \in cols |-> <<old_row[c], Get(new_row, c)>>]

\* a mutant of compare_key: the key is recorded whatever diffs holds
compare_key_always(changed, old, new, key) ==
    (key :> row_diffs(Lookup(old, key), Lookup(new, key))) @@ changed

\* the body of the loop over the common keys
compare_key(changed, old, new, key) ==
    LET diffs == row_diffs(Lookup(old, key), Lookup(new, key))
    IN  IF DOMAIN diffs # {} THEN (key :> diffs) @@ changed ELSE changed

\* for key in common: ... (a set is iterated in no particular order, and the
\* iterations do not depend on each other)
RECURSIVE compare_loop(_, _, _, _)
compare_loop(keys, changed, old, new) ==
    IF keys = {} THEN changed
    ELSE LET key == CHOOSE k \in keys : TRUE
         IN  compare_loop(keys \ {key}, compare_key(changed, old, new, key),
                          old, new)

compare_dicts(old, new) ==
    LET old_keys == Keys(old)
        new_keys == Keys(new)
    IN  [added   |-> added_keys(old_keys, new_keys),
         removed |-> removed_keys(old_keys, new_keys),
         changed |-> compare_loop(old_keys \cap new_keys, EmptyRow, old, new)]

(***************************************************************************)
(* print_comparison_results: how the call ends                             *)
(***************************************************************************)
\* DELIMITER.join(row[col] for col in columns): the generator is run to its
\* end first (a missing column raises KeyError), then the values are joined
\* (a value that is no str raises TypeError)
JoinRow(row, columns) ==
    IF \E c \in columns : c \notin DOMAIN row THEN "KeyError"
    ELSE IF \E c \in columns : row[c].t # "str" THEN "TypeError"
    ELSE "ok"

\* the errors the loop over a set of keys can end with (the order of the
\* iteration decides which comes first); empty when every row is printed
AddedErrors(keys, d, columns) ==
    {JoinRow(Lookup(d, k), columns) : k \in keys} \ {"ok"}

\* a changed key prints its old line, then its new line
ChangedErrors(changed, old, new, columns) ==
    {IF JoinRow(Lookup(old, k), columns) # "ok"
     THEN JoinRow(Lookup(old, k), columns)
     ELSE JoinRow(Lookup(new, k), columns) : k \in DOMAIN changed} \ {"ok"}

\* the ways print_comparison_results(added, removed, changed, old, new) can
\* end: "ok" or the exception it raises
print_comparison_results(added, removed, changed, old, new) ==
    LET sample_data == IF old # EmptyDict THEN old ELSE new
    IN  IF sample_data = EmptyDict THEN {"StopIteration"}
        ELSE LET columns == DOMAIN sample_data[1][2]
                 a == AddedErrors(added, new, columns)
                 r == AddedErrors(removed, old, columns)
                 c == ChangedErrors(changed, old, new, columns)
             IN  IF a # {} THEN a
                 ELSE IF r # {} THEN r
                 ELSE IF c # {} THEN c
                 ELSE {"ok"}

(***************************************************************************)
(* SpecDiff: main, from the two loads to the report                        *)
(***************************************************************************)
DiffHeaders == {<<"id">>, <<"id", "a">>}
DiffKeys == <<"1", "2", "3">>
DiffKeyCells == {DiffKeys[i] : i \in DOMAIN DiffKeys}
DiffCells == {"", "x", "y"}

\* a record has one or two fields, the first from DiffKeyCells
DiffRecords ==
    {<<k>> : k \in DiffKeyCells} \cup (DiffKeyCells \X DiffCells)

\* the keys of the records of a file are in the order of DiffKeys, without
\* duplicates (duplicate keys are SpecLoad's matter)
InKeyOrder(records) ==
    \A i, j \in DOMAIN records :
        i < j => \E m, n \in DOMAIN DiffKeys :
                    /\ m < n
                    /\ records[i][1] = DiffKeys[m]
                    /\ records[j][1] = DiffKeys[n]

DiffFiles ==
    [header : DiffHeaders,
     records : {r \in SeqsOf(DiffRecords, 0, MaxDiffRecs) : InKeyOrder(r)}]

\* every snapshot a file of DiffFiles loads to
DiffSnapshots == {load_csv_to_dict(f) : f \in DiffFiles}

\* main, after old_data and new_data are loaded
InitDiff ==
    /\ pc = "loaded"
    /\ old_data \in DiffSnapshots
    /\ new_data \in DiffSnapshots
    /\ result = <<>> /\ outcome = ""
    /\ file = <<>> /\ idx = 0 /\ data = <<>>
    /\ fs = {} /\ dirs = {} /\ todo = {} /\ logs = <<>>

\* added, removed, changed = compare_dicts(old_data, new_data)
Compare ==
    /\ pc = "loaded"
    /\ result' = compare_dicts(old_data, new_data)
    /\ pc' = "compared"
    /\ UNCHANGED <<old_data, new_data, outcome, loadVars, filesVars>>

\* print_comparison_results(added, removed, changed, old_data, new_data)
PrintResults ==
    /\ pc = "compared"
    /\ outcome' \in print_comparison_results(result.added, result.removed,
                                             result.changed, old_data, new_data)
    /\ pc' = "printed"
    /\ UNCHANGED <<old_data, new_data, result, loadVars, filesVars>>

NextDiff == Compare \/ PrintResults

SpecDiff == InitDiff /\ [][NextDiff]_vars

(***************************************************************************)
(* Claims about compare_dicts and the report (checked under SpecDiff)      *)
(***************************************************************************)
Compared == pc \in {"compared", "printed"}
OldKeys == Keys(old_data)
NewKeys == Keys(new_data)
Common == OldKeys \cap NewKeys
OldRow(k) == Lookup(old_data, k)
NewRow(k) == Lookup(new_data, k)

\* C1: added is the keys of new that are not keys of old and removed the
\* keys of old that are not keys of new; so the two are disjoint, with the
\* common keys they make up all the keys, and each key is a key of the
\* snapshot it is taken from.
C1_SetAlgebra ==
    Compared =>
        /\ result.added = {k \in NewKeys : k \notin OldKeys}
        /\ result.removed = {k \in OldKeys : k \notin NewKeys}
        /\ result.added \cap result.removed = {}
        /\ result.added \cup result.removed \cup Common = OldKeys \cup NewKeys
        /\ result.added \subseteq NewKeys
        /\ result.removed \subseteq OldKeys

\* compared, with a key added, a key removed and a key in common
C1_Witness ==
    /\ Compared
    /\ result.added # {} /\ result.removed # {} /\ Common # {}

\* the columns of old[k] whose value differs from new[k]'s, the value of a
\* column new[k] lacks being None
Differing(k) == {c \in DOMAIN OldRow(k) : OldRow(k)[c] # Get(NewRow(k), c)}

\* C2: a key is in changed exactly when it is a key of both snapshots and a
\* column of its old row differs from the new row's value; changed[k] holds
\* exactly the differing columns, each with the pair (old value, new value),
\* and never an empty mapping.
C2_ChangedExactly ==
    Compared =>
        /\ DOMAIN result.changed = {k \in Common : Differing(k) # {}}
        /\ \A k \in DOMAIN result.changed :
              /\ DOMAIN result.changed[k] = Differing(k)
              /\ DOMAIN result.changed[k] # {}
              /\ \A c \in Differing(k) :
                    result.changed[k][c] = <<OldRow(k)[c], Get(NewRow(k), c)>>

\* compared, with a common key that changed and a common key that did not
C2_Witness ==
    /\ Compared
    /\ \E k1, k2 \in Common : k1 \in DOMAIN result.changed
                              /\ k2 \notin DOMAIN result.changed

\* C3: a column the old row has and the new row lacks is recorded in
\* changed[key] as (old value, None), whatever the old value is.
\* (The statement of the claim; the code compares the old value with
\* new_row.get(col), and finds an old None equal to the missing column.)
C3_MissingColumnRecorded ==
    Compared =>
        \A k \in Common : \A c \in DOMAIN OldRow(k) \ DOMAIN NewRow(k) :
            /\ k \in DOMAIN result.changed
            /\ c \in DOMAIN result.changed[k]
            /\ result.changed[k][c] = <<OldRow(k)[c], NoneVal>>

\* new2 has the keys of new_data, and on a key of old_data its row agrees
\* with new_data's on every column of the old row (present or missing alike)
SameOnOldColumns(new2) ==
    /\ Len(new2) = Len(new_data)
    /\ Keys(new2) = NewKeys
    /\ \A k \in Common : \A c \in DOMAIN OldRow(k) :
          /\ (c \in DOMAIN Lookup(new2, k)) = (c \in DOMAIN NewRow(k))
          /\ Get(Lookup(new2, k), c) = Get(NewRow(k), c)

\* C7: a snapshot new2 that differs from new only in columns the old rows do
\* not have compares with old exactly as new does.
C7_NewOnlyColumnsIgnored ==
    pc = "compared" =>
        \A new2 \in DiffSnapshots :
            SameOnOldColumns(new2) => compare_dicts(old_data, new2) = result

\* compared, and some such new2 has, for a common key, another value than
\* new in a column the old row does not have
C7_Witness ==
    /\ pc = "compared"
    /\ \E new2 \in DiffSnapshots :
          /\ SameOnOldColumns(new2)
          /\ \E k \in Common : \E c \in DOMAIN NewRow(k) \ DOMAIN OldRow(k) :
                /\ c \in DOMAIN Lookup(new2, k)
                /\ Lookup(new2, k)[c] # NewRow(k)[c]

\* C10: compare_dicts followed by print_comparison_results ends without an
\* error for any two loaded snapshots.
\* (The statement of the claim; the code raises StopIteration on two empty
\* snapshots, KeyError on a row lacking a column of the first row and
\* TypeError on a value that is no str.)
C10_PrintCompletes == pc = "printed" => outcome = "ok"


(***************************************************************************)
(* File names and the folder                                               *)
(*                                                                         *)
(* A file name is [parts, ext]: the string parts[1]_parts[2]_..._parts[n]  *)
(* followed by "." and ext when ext is not "".  A part holds no "_" and no *)
(* ".", but for a date-time prefix YYYY-MM-DD_HH-MM, which is one part, so *)
(* two names are the same string exactly when they are the same record.    *)
(* A subfolder of the logs folder is named by the parts of its name.       *)
(***************************************************************************)
\* the date-time prefixes of the model, in increasing order
DateSeq == <<"2024-01-01_10-00", "2024-01-02_11-30">>
Dates == {DateSeq[i] : i \in DOMAIN DateSeq}
DateRank(d) == CHOOSE i \in DOMAIN DateSeq : DateSeq[i] = d

\* the logs folder itself, as the directory of a file
Root == <<>>

Name(parts, ext) == [parts |-> parts, ext |-> ext]

\* re.match(r"^\d{4}-\d{2}-\d{2}_\d{2}-\d{2}_", filename)
file_starts_with_date(name) ==
    Len(name.parts) >= 2 /\ name.parts[1] \in Dates

\* re.match(r"^(\d{4}-\d{2}-\d{2}_\d{2}-\d{2})_(.+)\.csv$", filename):
\* <<date_time, log_type>>, or <<>> for (None, None)
extract_prefix_and_type(name) ==
    IF name.ext = "csv" /\ Len(name.parts) >= 2 /\ name.parts[1] \in Dates
    THEN <<name.parts[1], Tail(name.parts)>>
    ELSE <<>>

\* file_path.suffix.lower() == ".csv"
IsCsvSuffix(name) == name.ext \in {"csv", "CSV"}

\* Path.exists(): a file of that directory and name, or, in the logs folder,
\* a subfolder of that name
Exists(dir, name) ==
    \/ \E f \in fs : f.dir = dir /\ f.name = name
    \/ dir = Root /\ name.ext = "" /\ name.parts \in dirs

\* Path.is_file()
IsFile(dir, name) == \E f \in fs : f.dir = dir /\ f.name = name

\* Path.rename (os.rename): the file at <<dir, name>> is at <<dir2, name2>>
\* afterwards, and a file that was there is replaced
Renamed(dir, name, dir2, name2) ==
    LET src == CHOOSE f \in fs : f.dir = dir /\ f.name = name
    IN  {f \in fs : ~(f.dir = dir /\ f.name = name)
                    /\ ~(f.dir = dir2 /\ f.name = name2)}
        \cup {[id |-> src.id, dir |-> dir2, name |-> name2]}

(***************************************************************************)
(* rename_files_with_date_prefix                                           *)
(***************************************************************************)
\* f"{mod_date}_{original_name}", f"{mod_date}_{counter}_{original_name}"
DatedName(mod_date, original, counter) ==
    IF counter = 0
    THEN Name(<<mod_date>> \o original.parts, original.ext)
    ELSE Name(<<mod_date, ToString(counter)>> \o original.parts, original.ext)

\* while new_path.exists(): ... counter += 1
RECURSIVE RenameTarget(_, _, _)
RenameTarget(mod_date, original, counter) ==
    IF Exists(Root, DatedName(mod_date, original, counter))
    THEN RenameTarget(mod_date, original, counter + 1)
    ELSE DatedName(mod_date, original, counter)

(***************************************************************************)
(* organize_files_by_log_type                                              *)
(***************************************************************************)
\* file_path.name, f"{file_path.stem}_{counter}{file_path.suffix}"
CountedName(name, counter) ==
    IF counter = 0 THEN name
    ELSE Name(name.parts \o <<ToString(counter)>>, name.ext)

\* a mutant of MoveTarget: no search for a free name
MoveTargetFirst(target_folder, name, counter) == name

\* while new_path.exists(): ... counter += 1
RECURSIVE MoveTarget(_, _, _)
MoveTarget(target_folder, name, counter) ==
    IF Exists(target_folder, CountedName(name, counter))
    THEN MoveTarget(target_folder, name, counter + 1)
    ELSE CountedName(name, counter)

(***************************************************************************)
(* list_log_folders_and_files                                              *)
(***************************************************************************)
\* the (dt_str, file_path) entries of a subfolder: its .csv files that carry
\* a date-time prefix
Entries(dir) ==
    {<<extract_prefix_and_type(f.name)[1], f.name>> :
        f \in {g \in fs : /\ g.dir = dir
                          /\ IsCsvSuffix(g.name)
                          /\ extract_prefix_and_type(g.name) # <<>>}}

\* entries.sort(key=lambda x: x[0], reverse=True): the orders of the entries
\* with the dates not increasing (entries of one date keep the order of the
\* directory listing, which is any)
SortedEntries(dir) ==
    LET S == Entries(dir)
        n == Cardinality(S)
    IN  {q \in [1..n -> S] :
            /\ \A e \in S : \E i \in 1..n : q[i] = e
            /\ \A i, j \in 1..n :
                  i < j => DateRank(q[i][1]) >= DateRank(q[j][1])}

\* the dicts the function can return
list_log_folders_and_files ==
    LET listed == {d \in dirs : Entries(d) # {}}
    IN  {l \in [listed -> UNION {SortedEntries(d) : d \in listed}] :
            \A d \in listed : l[d] \in SortedEntries(d)}

(***************************************************************************)
(* SpecFiles: main's housekeeping on a small logs folder                   *)
(***************************************************************************)
\* the most files of the logs folder and its subfolders
MaxFiles == 3

LogTypes == {"digital"}

\* in the logs folder: <type>.csv, 1_<type>.csv, <date>_<type>.csv,
\* <date>_1_<type>.csv, <date>_<date>_<type>.csv, <type> and notes.txt
RootNames ==
    {Name(<<t>>, "csv") : t \in LogTypes}
        \cup {Name(<<"1", t>>, "csv") : t \in LogTypes}
        \cup {Name(<<d, t>>, "csv") : d \in Dates, t \in LogTypes}
        \cup {Name(<<d, "1", t>>, "csv") : d \in Dates, t \in LogTypes}
        \cup {Name(<<d, d, t>>, "csv") : d \in Dates, t \in LogTypes}
        \cup {Name(<<t>>, "") : t \in LogTypes}
        \cup {Name(<<"notes">>, "txt")}

\* in the subfolder <type>, from earlier runs: <date>_<type>.csv and
\* <date>_<type>_1.csv
SubPaths ==
    {[dir |-> <<t>>, name |-> Name(<<d, t>>, "csv")] :
        d \in Dates, t \in LogTypes}
        \cup {[dir |-> <<t>>, name |-> Name(<<d, t, "1">>, "csv")] :
                d \in Dates, t \in LogTypes}

InitPaths == {[dir |-> Root, name |-> n] : n \in RootNames} \cup SubPaths

\* a file is known by the path it had at the start
InitFile(p) == [id |-> p, dir |-> p.dir, name |-> p.name]

InitFiles ==
    /\ pc = "start"
    /\ \E P \in SUBSET InitPaths :
          /\ Cardinality(P) <= MaxFiles
          /\ fs = {InitFile(p) : p \in P}
          /\ dirs = {p.dir : p \in P} \ {Root}
    /\ todo = {}
    /\ logs = <<>>
    /\ file = <<>> /\ idx = 0 /\ data = <<>>
    /\ old_data = <<>> /\ new_data = <<>>
    /\ result = <<>> /\ outcome = ""

\* the names of the files of the logs folder
RootFiles == {f.name : f \in {g \in fs : g.dir = Root}}

\* rename_files_with_date_prefix: folder.iterdir() lists the folder
BeginRename ==
    /\ pc = "start"
    /\ todo' = RootFiles
    /\ pc' = "renaming"
    /\ UNCHANGED <<fs, dirs, logs, loadVars, diffVars>>

\* one iteration of its loop, on any remaining entry of the listing; the
\* modification time of the file is any date of the model
RenameFile ==
    /\ pc = "renaming"
    /\ \E original \in todo :
          /\ todo' = todo \ {original}
          /\ IF IsFile(Root, original) /\ ~file_starts_with_date(original)
             THEN \E mod_date \in Dates :
                     fs' = Renamed(Root, original, Root,
                                   RenameTarget(mod_date, original, 0))
             ELSE fs' = fs
    /\ UNCHANGED <<pc, dirs, logs, loadVars, diffVars>>

\* organize_files_by_log_type: folder.iterdir() lists the folder
BeginOrganize ==
    /\ pc = "renaming"
    /\ todo = {}
    /\ todo' = RootFiles
    /\ pc' = "organizing"
    /\ UNCHANGED <<fs, dirs, logs, loadVars, diffVars>>

\* one iteration of its loop; mkdir(exist_ok=True) raises FileExistsError
\* when a file has the name of the subfolder, which ends the run
MoveFile ==
    /\ pc = "organizing"
    /\ \E name \in todo :
          /\ todo' = todo \ {name}
          /\ LET log_type == extract_prefix_and_type(name)
             IN  IF IsFile(Root, name) /\ IsCsvSuffix(name) /\ log_type # <<>>
                 THEN IF IsFile(Root, Name(log_type[2], ""))
                      THEN /\ pc' = "crashed"
                           /\ UNCHANGED <<fs, dirs>>
                      ELSE /\ dirs' = dirs \cup {log_type[2]}
                           /\ fs' = Renamed(Root, name, log_type[2],
                                            MoveTarget(log_type[2], name, 0))
                           /\ pc' = pc
                 ELSE UNCHANGED <<pc, fs, dirs>>
    /\ UNCHANGED <<logs, loadVars, diffVars>>

\* logs = list_log_folders_and_files(LOGS_FOLDER)
ListLogs ==
    /\ pc = "organizing"
    /\ todo = {}
    /\ logs' \in list_log_folders_and_files
    /\ pc' = "listed"
    /\ UNCHANGED <<fs, dirs, todo, loadVars, diffVars>>

NextFiles ==
    BeginRename \/ RenameFile \/ BeginOrganize \/ MoveFile \/ ListLogs

SpecFiles == InitFiles /\ [][NextFiles]_vars

(***************************************************************************)
(* Claims about the housekeeping (checked under SpecFiles)                 *)
(***************************************************************************)
\* C8: no step of rename_files_with_date_prefix or organize_files_by_log_type
\* overwrites a file: a file that changes its path takes a path nothing had
\* immediately before, every file that existed still exists, under one path,
\* and the number of files does not change.
C8_NeverOverwrites ==
    [][/\ \A f \in fs' \ fs : ~Exists(f.dir, f.name)
       /\ {f.id : f \in fs'} = {f.id : f \in fs}
       /\ Cardinality(fs') = Cardinality(fs)
       /\ \A f, g \in fs' : (f.dir = g.dir /\ f.name = g.name) => f = g]_vars

\* a file of the logs folder whose dated name took a counter, as its first
\* name was taken
RenameCollided(f) ==
    /\ f.id.dir = Root
    /\ ~file_starts_with_date(f.id.name)
    /\ Len(f.name.parts) >= Len(f.id.name.parts) + 2
    /\ \E d \in Dates :
          SubSeq(f.name.parts, 1, Len(f.id.name.parts) + 2)
              = <<d, "1">> \o f.id.name.parts

\* a file moved to a subfolder under a name with a counter, as its own name
\* was taken there
MoveCollided(f) ==
    /\ f.id.dir = Root
    /\ f.dir # Root
    /\ f.name.parts[Len(f.name.parts)] = "1"
    /\ \E g \in fs : /\ g.dir = f.dir
                     /\ g.name.ext = f.name.ext
                     /\ g.name.parts \o <<"1">> = f.name.parts

\* both functions have run, one file was renamed with a counter and one file
\* was moved with a counter
C8_Witness ==
    /\ pc = "listed"
    /\ \E f \in fs : RenameCollided(f)
    /\ \E f \in fs : MoveCollided(f)

\* the log type of the name a file had at the start: of <logtype>.csv and of
\* YYYY-MM-DD_HH-MM_<logtype>.csv
OriginalType(name) ==
    IF file_starts_with_date(name) THEN Tail(name.parts) ELSE name.parts

\* C9: after the two functions every file of the logs folder that was named
\* <logtype>.csv or YYYY-MM-DD_HH-MM_<logtype>.csv is in the subfolder
\* <logtype> and is listed under the log type <logtype>.
\* (The statement of the claim; a name that collides is given the counter
\* before the original name, so the file goes to the subfolder
\* <counter>_<logtype>.)
C9_SortedIntoLogType ==
    pc = "listed" =>
        \A f \in fs :
            (f.id.dir = Root /\ f.id.name.ext = "csv") =>
                /\ f.dir = OriginalType(f.id.name)
                /\ f.dir \in DOMAIN logs
                /\ \E i \in DOMAIN logs[f.dir] : logs[f.dir][i][2] = f.name

=============================================================================
